---- MODULE Spec2Model ----
(***************************************************************************)
(* pdf-file-renamer: the directory run of file_renamer/cli.py              *)
(* (process_directory, process_pdf, process_screenshot) over a filesystem  *)
(* of two directories (Spec), and the functions of file_renamer/models.py  *)
(* that build a file name, each called on its own (ModelsSpec).  Steps of  *)
(* process_pdf and process_screenshot are also taken on their own, two     *)
(* executions side by side among them (PipelineSpec); MainSpec is the run  *)
(* from the entry of main, FairSpec the run that does not stop halfway.    *)
(* Texts and file names are sequences of one-character strings, so that    *)
(* split, rsplit, strip, join, replace and the f-strings are computed as   *)
(* the code computes them.                                                 *)
(***************************************************************************)
EXTENDS Naturals, Integers, Sequences, FiniteSets, TLC

VARIABLES
    fs,                \* the filesystem: path -> content, for the paths that exist
    dry_run,           \* main's --dry-run flag
    output_dir,        \* "in" (no --output: the input directory) or "out"; "none" until main sets it
    pdf_files,         \* get_all_supported_files(directory)[0]
    screenshot_files,  \* get_all_supported_files(directory)[1]
    kind,              \* which loop of process_directory runs: "pdf" or "img"
    idx,               \* position of that loop in its list (1-based)
    pc,                \* position inside process_directory / process_pdf / process_screenshot
    new_filename,      \* local new_filename of the file being processed
    new_path,          \* local new_path
    counter,           \* local counter
    errors,            \* logger.error calls made so far for the file being processed
    copied,            \* history: shutil.copy2 returned normally for this file
    fs0,               \* history: the filesystem when the current file's processing began
    fs_init,           \* history: the filesystem when the run began
    last,              \* history: how the processing of the previous file ended
    attempted,         \* history: the files process_pdf / process_screenshot was called for
    call               \* what is examined on its own: a call of models.py, a step of cli.py, main's options

vars == <<fs, dry_run, output_dir, pdf_files, screenshot_files, kind, idx, pc,
          new_filename, new_path, counter, errors, copied, fs0, fs_init, last,
          attempted, call>>

---------------------------------------------------------------------------
(* Bounds of the model *)

\* at most this many files exist when the run starts
MaxInitFiles == 3

\* at most this many of them are files the run renames (PDFs and screenshots of the
\* input directory)
MaxSources == 2

---------------------------------------------------------------------------
(* Strings as sequences of characters *)

\* the characters '0'..'9', index d+1 holding digit d
Digits == <<"0", "1", "2", "3", "4", "5", "6", "7", "8", "9">>

\* str(n) of a non-negative int, as the f-string "{counter}" renders it
RECURSIVE IntToStr(_)
IntToStr(n) ==
    IF n < 10 THEN <<Digits[n + 1]>>
    ELSE IntToStr(n \div 10) \o <<Digits[(n % 10) + 1]>>

\* the positions of character c in s
Positions(s, c) == {k \in 1..Len(s) : s[k] = c}

\* the largest element of a non-empty set of naturals
SetMax(S) == CHOOSE m \in S : \A k \in S : k <= m

\* s.rsplit(c, 1)[0]: the text before the last c, the whole of s when it holds no c
RSplitHead(s, c) ==
    IF Positions(s, c) = {} THEN s
    ELSE SubSeq(s, 1, SetMax(Positions(s, c)) - 1)

\* s.split(c)[-1]: the text after the last c, the whole of s when it holds no c
SplitLast(s, c) ==
    IF Positions(s, c) = {} THEN s
    ELSE SubSeq(s, SetMax(Positions(s, c)) + 1, Len(s))

\* s.endswith(suf)
EndsWith(s, suf) ==
    /\ Len(s) >= Len(suf)
    /\ SubSeq(s, Len(s) - Len(suf) + 1, Len(s)) = suf

---------------------------------------------------------------------------
(* Paths and file names of the model *)

\* output_dir / name
Path(d, n) == [dir |-> d, name |-> n]

\* the content a file has before the run: identified by the path it started at
Original(p) == [orig |-> p, complete |-> TRUE]

\* what an interrupted shutil.copy2 of src leaves at the destination
Truncated(src) == [orig |-> src, complete |-> FALSE]

DotPdf == <<".", "p", "d", "f">>
DotPng == <<".", "p", "n", "g">>
DotTxt == <<".", "t", "x", "t">>

\* names of files to rename
SourceNames == { <<"a">> \o DotPdf, <<"b">> \o DotPdf, <<"s">> \o DotPng }

\* names format_filename can give a PDF: a .pdf template, a .txt template, a template
\* without extension
PdfCandidates == { <<"X">> \o DotPdf, <<"X">> \o DotTxt, <<"X">> }

\* names format_filename can give a screenshot: a template with extension, one without
ImgCandidates == { <<"X">> \o DotPng, <<"X">> }

\* names already taken in the output directory before the run
TakenNames ==
    PdfCandidates \cup ImgCandidates
    \cup { <<"X", " ", "(", "1", ")">> \o DotPdf, <<"X", " ", "(", "1", ")">> \o DotPng }

---------------------------------------------------------------------------
(* Directory enumeration: pdf_extractor.py *)

\* the characters of the model's names in ascending code point order
CodeOrder ==
    <<" ", "(", ")", ".", "0", "1", "2", "3", "4", "5", "6", "7", "8", "9",
      "X", "a", "b", "d", "f", "g", "n", "p", "s", "t", "x">>

CharCode(c) == CHOOSE k \in 1..Len(CodeOrder) : CodeOrder[k] = c

\* a < b for str: the first differing character decides, a proper prefix is smaller
StrLess(a, b) ==
    \E k \in 1..(Len(b)) :
        /\ \A j \in 1..(k - 1) : j <= Len(a) /\ a[j] = b[j]
        /\ \/ k = Len(a) + 1
           \/ k <= Len(a) /\ CharCode(a[k]) < CharCode(b[k])

\* p < q for two paths of one directory
PathLess(p, q) == StrLess(p.name, q.name)

\* every ordering of the set S as a sequence
Orderings(S) ==
    {f \in [1..Cardinality(S) -> S] : \A j, k \in 1..Cardinality(S) : f[j] = f[k] => j = k}

\* the files of directory "in" that a filesystem f holds
Listing(f) == {p \in DOMAIN f : p.dir = "in"}

\* directory.glob("*.pdf")
GlobPdf(f) == {p \in Listing(f) : EndsWith(p.name, DotPdf)}

\* the patterns of get_screenshot_files, lower case and upper case
ImageSuffixes ==
    { <<".", "p", "n", "g">>, <<".", "j", "p", "g">>, <<".", "j", "p", "e", "g">>,
      <<".", "b", "m", "p">>, <<".", "g", "i", "f">>, <<".", "t", "i", "f", "f">>,
      <<".", "w", "e", "b", "p">>,
      <<".", "P", "N", "G">>, <<".", "J", "P", "G">>, <<".", "J", "P", "E", "G">>,
      <<".", "B", "M", "P">>, <<".", "G", "I", "F">>, <<".", "T", "I", "F", "F">>,
      <<".", "W", "E", "B", "P">> }

GlobImages(f) == {p \in Listing(f) : \E suf \in ImageSuffixes : EndsWith(p.name, suf)}

\* get_pdf_files: the matches in the order the directory scan gives them (any order)
get_pdf_files(f) == Orderings(GlobPdf(f))

\* get_screenshot_files: sorted(image_files)
get_screenshot_files(f) ==
    CHOOSE s \in Orderings(GlobImages(f)) :
        \A j, k \in 1..Len(s) : j < k => PathLess(s[j], s[k])

---------------------------------------------------------------------------
(* The state when main has set output_dir and is about to run process_directory *)

\* the paths that may hold a file before the run: the sources in the input directory,
\* and the taken names in the output directory (which is the input directory when no
\* --output is given)
InitPaths(out) ==
    {Path("in", n) : n \in SourceNames} \cup {Path(out, n) : n \in TakenNames}

NoPath == [dir |-> "none", name |-> <<>>]

\* no function of models.py is being called
NoCall == [fn |-> "none"]

\* no file has been processed yet
NoLast == [src |-> NoPath, dst |-> NoPath, outcome |-> "none", copied |-> FALSE,
           cleanup |-> "none", errors |-> 0]

Init ==
    /\ dry_run \in BOOLEAN
    /\ output_dir \in {"in", "out"}
    /\ \E S \in SUBSET InitPaths(output_dir) :
          /\ Cardinality(S) <= MaxInitFiles
          /\ fs = [p \in S |-> Original(p)]
    /\ Cardinality(GlobPdf(fs) \cup GlobImages(fs)) <= MaxSources
    /\ fs_init = fs
    /\ fs0 = fs
    /\ pdf_files = <<>>
    /\ screenshot_files = <<>>
    /\ kind = "pdf"
    /\ idx = 1
    /\ pc = "start"
    /\ new_filename = <<>>
    /\ new_path = NoPath
    /\ counter = 1
    /\ errors = 0
    /\ copied = FALSE
    /\ last = NoLast
    /\ attempted = <<>>
    /\ call = NoCall

---------------------------------------------------------------------------
(* process_directory *)

\* a faulty variant of Src: the loop variable stays at the first file of the list
SrcFirst == IF kind = "pdf" THEN pdf_files[1] ELSE screenshot_files[1]

\* the file the running loop is at
Src == IF kind = "pdf" THEN pdf_files[idx] ELSE screenshot_files[idx]

\* the locals of process_pdf / process_screenshot before the function is entered
ResetLocals ==
    /\ new_filename' = <<>>
    /\ new_path' = NoPath
    /\ counter' = 1
    /\ errors' = 0
    /\ copied' = FALSE

\* get_all_supported_files, and the return when nothing is found
Enumerate ==
    /\ pc = "start"
    /\ pdf_files' \in get_pdf_files(fs)
    /\ screenshot_files' = get_screenshot_files(fs)
    /\ pc' = IF Len(pdf_files') + Len(screenshot_files') = 0 THEN "done" ELSE "loop"
    /\ UNCHANGED <<fs, dry_run, output_dir, kind, idx, new_filename, new_path,
                   counter, errors, copied, fs0, fs_init, last, attempted, call>>

\* for pdf_path in pdf_files: the call of process_pdf
PdfLoopNext ==
    /\ pc = "loop" /\ kind = "pdf" /\ idx <= Len(pdf_files)
    /\ pc' = "extract"
    /\ fs0' = fs
    /\ ResetLocals
    /\ attempted' = Append(attempted, Src)
    /\ UNCHANGED <<fs, dry_run, output_dir, pdf_files, screenshot_files, kind, idx,
                   fs_init, last, call>>

\* the PDF loop is exhausted: on to the screenshots
PdfLoopEnd ==
    /\ pc = "loop" /\ kind = "pdf" /\ idx > Len(pdf_files)
    /\ kind' = "img"
    /\ idx' = 1
    /\ UNCHANGED <<fs, dry_run, output_dir, pdf_files, screenshot_files, pc,
                   new_filename, new_path, counter, errors, copied, fs0, fs_init, last,
                   attempted, call>>

\* for image_path in screenshot_files: the call of process_screenshot
ImgLoopNext ==
    /\ pc = "loop" /\ kind = "img" /\ idx <= Len(screenshot_files)
    /\ pc' = "extract"
    /\ fs0' = fs
    /\ ResetLocals
    /\ attempted' = Append(attempted, Src)
    /\ UNCHANGED <<fs, dry_run, output_dir, pdf_files, screenshot_files, kind, idx,
                   fs_init, last, call>>

\* the screenshot loop is exhausted: process_directory returns
ImgLoopEnd ==
    /\ pc = "loop" /\ kind = "img" /\ idx > Len(screenshot_files)
    /\ pc' = "done"
    /\ UNCHANGED <<fs, dry_run, output_dir, pdf_files, screenshot_files, kind, idx,
                   new_filename, new_path, counter, errors, copied, fs0, fs_init, last,
                   attempted, call>>

\* process_pdf / process_screenshot is left, by return or by an exception that the
\* loop catches (which logs it): the loop goes on with the next file
Finish(outcome, cleanup, errs, dst) ==
    /\ last' = [src |-> Src, dst |-> dst, outcome |-> outcome, copied |-> copied,
                cleanup |-> cleanup, errors |-> errs]
    /\ errors' = errs
    /\ idx' = idx + 1
    /\ pc' = "loop"

---------------------------------------------------------------------------
(* Filesystem operations *)

\* Path.exists(): a file is at the path, or the path is the existing directory
\* itself (dir / '' and dir / '.') or its parent (dir / '..')
Exists(f, p) == p \in DOMAIN f \/ p.name \in {<<>>, <<".">>, <<".", ".">>}

\* the filesystem f with content c at path p (created or overwritten)
Write(f, p, c) == [q \in DOMAIN f \cup {p} |-> IF q = p THEN c ELSE f[q]]

\* a faulty variant of Unlink: the call returns and the file is still there
UnlinkKeepsFile(f, p) == f

\* Path.unlink() that succeeds
Unlink(f, p) == [q \in DOMAIN f \ {p} |-> f[q]]

\* faulty variants of Copy2: the call returns having written nothing, or a part of the bytes
Copy2WritesNothing(f, src, dst) == f

Copy2WritesPart(f, src, dst) == Write(f, dst, Truncated(f[src].orig))

\* shutil.copy2(src, dst) that returns: dst holds the bytes of src
Copy2(f, src, dst) == Write(f, dst, f[src])

\* shutil.copy2(src, dst) that raises: nothing was written, or dst was opened and
\* holds a part of the bytes, or all bytes were written and copying the metadata failed
Copy2Failed(f, src, dst) ==
    {f} \cup (IF Exists(f, src)
              THEN {Write(f, dst, Truncated(f[src].orig)), Write(f, dst, f[src])}
              ELSE {})

---------------------------------------------------------------------------
(* process_pdf and process_screenshot: extraction and file name *)

\* a faulty variant of LoopCatches: the call is not guarded, the exception leaves the loop
LoopCatchesNothing(outcome) == FALSE

\* except Exception as e, around the call of process_pdf / process_screenshot: every
\* exception the call raises is caught
LoopCatches(outcome) == TRUE

\* process_pdf / process_screenshot raises: the except clause of the loop logs the
\* error and continues; an exception that is not caught leaves process_directory
Raised ==
    IF LoopCatches("raised")
    THEN Finish("raised", "none", errors + 1, NoPath)
    ELSE /\ pc' = "done"
         /\ UNCHANGED <<idx, errors, last>>

\* process_pdf up to the candidate name: no text, no bibliographic information, an
\* exception of format_filename (caught by the loop of process_directory), or a name
PdfExtract ==
    /\ pc = "extract" /\ kind = "pdf"
    /\ \/ /\ Finish("no_text", "none", errors + 1, NoPath)
          /\ UNCHANGED <<new_filename, new_path, counter>>
       \/ /\ Finish("no_info", "none", errors + 1, NoPath)
          /\ UNCHANGED <<new_filename, new_path, counter>>
       \/ /\ Raised
          /\ UNCHANGED <<new_filename, new_path, counter>>
       \/ /\ Exists(fs, Src)
          /\ new_filename' \in PdfCandidates
          /\ new_path' = Path(output_dir, new_filename')
          /\ counter' = 1
          /\ pc' = "while"
          /\ UNCHANGED <<idx, errors, last>>
    /\ UNCHANGED <<fs, dry_run, output_dir, pdf_files, screenshot_files, kind,
                   copied, fs0, fs_init, attempted, call>>

\* process_screenshot up to the candidate name
ImgExtract ==
    /\ pc = "extract" /\ kind = "img"
    /\ \/ /\ Finish("no_text", "none", errors + 1, NoPath)
          /\ UNCHANGED <<new_filename, new_path, counter>>
       \/ /\ Finish("no_info", "none", errors + 1, NoPath)
          /\ UNCHANGED <<new_filename, new_path, counter>>
       \/ /\ Raised
          /\ UNCHANGED <<new_filename, new_path, counter>>
       \/ /\ Exists(fs, Src)
          /\ new_filename' \in ImgCandidates
          /\ new_path' = Path(output_dir, new_filename')
          /\ counter' = 1
          /\ pc' = "while"
          /\ UNCHANGED <<idx, errors, last>>
    /\ UNCHANGED <<fs, dry_run, output_dir, pdf_files, screenshot_files, kind,
                   copied, fs0, fs_init, attempted, call>>

---------------------------------------------------------------------------
(* Collision resolution *)

\* a faulty variant of PathTaken: the candidate is used without the existence check
PathTakenNever(f, p) == FALSE

\* while new_path.exists()
PathTaken(f, p) == Exists(f, p)

\* process_pdf: f"{stem} ({counter}).pdf" with stem = new_filename.rsplit('.', 1)[0]
PdfNumbered(name, c) ==
    RSplitHead(name, ".") \o <<" ", "(">> \o IntToStr(c) \o <<")">> \o DotPdf

\* process_screenshot: f"{stem} ({counter}).{ext}" with
\* stem = new_filename.rsplit('.', 1)[0] and ext = new_filename.split('.')[-1]
ImgNumbered(name, c) ==
    RSplitHead(name, ".") \o <<" ", "(">> \o IntToStr(c) \o <<")", ".">>
        \o SplitLast(name, ".")

\* one test of the while condition of process_pdf, and the loop body when it holds
PdfWhile ==
    /\ pc = "while" /\ kind = "pdf"
    /\ IF PathTaken(fs, new_path)
       THEN /\ new_path' = Path(output_dir, PdfNumbered(new_filename, counter))
            /\ counter' = counter + 1
            /\ pc' = "while"
       ELSE /\ pc' = "materialize"
            /\ UNCHANGED <<new_path, counter>>
    /\ UNCHANGED <<fs, dry_run, output_dir, pdf_files, screenshot_files, kind, idx,
                   new_filename, errors, copied, fs0, fs_init, last, attempted, call>>

\* one test of the while condition of process_screenshot, and the loop body
ImgWhile ==
    /\ pc = "while" /\ kind = "img"
    /\ IF PathTaken(fs, new_path)
       THEN /\ new_path' = Path(output_dir, ImgNumbered(new_filename, counter))
            /\ counter' = counter + 1
            /\ pc' = "while"
       ELSE /\ pc' = "materialize"
            /\ UNCHANGED <<new_path, counter>>
    /\ UNCHANGED <<fs, dry_run, output_dir, pdf_files, screenshot_files, kind, idx,
                   new_filename, errors, copied, fs0, fs_init, last, attempted, call>>

---------------------------------------------------------------------------
(* Materialization: the same statements in process_pdf (lines 90-111) and in       *)
(* process_screenshot (lines 165-186)                                              *)

\* a faulty variant of Executes: the flag is ignored
ExecutesAlways(dry) == TRUE

\* if not dry_run
Executes(dry) == ~dry

\* a faulty variant of NeedsCleanup: the except clause only logs
NeedsCleanupNever(f, p) == FALSE

\* if new_path.exists(), in the except clause
NeedsCleanup(f, p) == Exists(f, p)

\* a faulty variant of CleanupTarget: the clean-up unlinks the source path
CleanupTargetSource(source, dest) == source

\* the path the clean-up unlinks: new_path.unlink()
CleanupTarget(source, dest) == dest

\* the branch on dry_run: the else branch only logs and returns
Materialize ==
    /\ pc = "materialize"
    /\ IF Executes(dry_run)
       THEN /\ pc' = "copy"
            /\ UNCHANGED <<idx, errors, last>>
       ELSE Finish("dry_run", "none", errors, new_path)
    /\ UNCHANGED <<fs, dry_run, output_dir, pdf_files, screenshot_files, kind,
                   new_filename, new_path, counter, copied, fs0, fs_init, attempted,
                   call>>

\* shutil.copy2(pdf_path, new_path) returns
CopyOk ==
    /\ pc = "copy"
    /\ Exists(fs, Src)
    /\ fs' = Copy2(fs, Src, new_path)
    /\ copied' = TRUE
    /\ pc' = "unlink"
    /\ UNCHANGED <<dry_run, output_dir, pdf_files, screenshot_files, kind, idx,
                   new_filename, new_path, counter, errors, fs0, fs_init, last,
                   attempted, call>>

\* shutil.copy2(pdf_path, new_path) raises: control goes to the except clause
CopyFails ==
    /\ pc = "copy"
    /\ fs' \in Copy2Failed(fs, Src, new_path)
    /\ pc' = "except"
    /\ UNCHANGED <<dry_run, output_dir, pdf_files, screenshot_files, kind, idx,
                   new_filename, new_path, counter, errors, copied, fs0, fs_init, last,
                   attempted, call>>

\* pdf_path.unlink() returns: the try block is done and the function returns
UnlinkOk ==
    /\ pc = "unlink"
    /\ Exists(fs, Src)
    /\ fs' = Unlink(fs, Src)
    /\ Finish("moved", "none", errors, new_path)
    /\ UNCHANGED <<dry_run, output_dir, pdf_files, screenshot_files, kind,
                   new_filename, new_path, counter, copied, fs0, fs_init, attempted,
                   call>>

\* pdf_path.unlink() raises: the source stays, control goes to the except clause
UnlinkFails ==
    /\ pc = "unlink"
    /\ pc' = "except"
    /\ UNCHANGED <<fs, dry_run, output_dir, pdf_files, screenshot_files, kind, idx,
                   new_filename, new_path, counter, errors, copied, fs0, fs_init, last,
                   attempted, call>>

\* except Exception: the error is logged; if new_path.exists() the clean-up follows,
\* else the function returns
Except ==
    /\ pc = "except"
    /\ IF NeedsCleanup(fs, new_path)
       THEN /\ pc' = "cleanup"
            /\ errors' = errors + 1
            /\ UNCHANGED <<idx, last>>
       ELSE Finish("failed", "none", errors + 1, new_path)
    /\ UNCHANGED <<fs, dry_run, output_dir, pdf_files, screenshot_files, kind,
                   new_filename, new_path, counter, copied, fs0, fs_init, attempted,
                   call>>

\* new_path.unlink() of the clean-up returns
CleanupOk ==
    /\ pc = "cleanup"
    /\ Exists(fs, CleanupTarget(Src, new_path))
    /\ fs' = Unlink(fs, CleanupTarget(Src, new_path))
    /\ Finish("failed", "done", errors, new_path)
    /\ UNCHANGED <<dry_run, output_dir, pdf_files, screenshot_files, kind,
                   new_filename, new_path, counter, copied, fs0, fs_init, attempted,
                   call>>

\* new_path.unlink() of the clean-up raises: a second error is logged
CleanupFails ==
    /\ pc = "cleanup"
    /\ Finish("failed", "failed", errors + 1, new_path)
    /\ UNCHANGED <<fs, dry_run, output_dir, pdf_files, screenshot_files, kind,
                   new_filename, new_path, counter, copied, fs0, fs_init, attempted,
                   call>>

---------------------------------------------------------------------------

Next ==
    \/ Enumerate
    \/ PdfLoopNext
    \/ PdfLoopEnd
    \/ ImgLoopNext
    \/ ImgLoopEnd
    \/ PdfExtract
    \/ ImgExtract
    \/ PdfWhile
    \/ ImgWhile
    \/ Materialize
    \/ CopyOk
    \/ CopyFails
    \/ UnlinkOk
    \/ UnlinkFails
    \/ Except
    \/ CleanupOk
    \/ CleanupFails

Spec == Init /\ [][Next]_vars

---------------------------------------------------------------------------
(* Vocabulary of the properties *)

\* process_pdf or process_screenshot is running for the file Src
InProcess ==
    pc \in {"extract", "while", "materialize", "copy", "unlink", "except", "cleanup"}

\* the previous file's processing has just ended and the next has not begun
JustEnded == pc \in {"loop", "done"} /\ last.outcome # "none"

\* a file is at path p
Present(f, p) == p \in DOMAIN f

\* the filesystems f and g hold the same files with the same contents, the paths
\* of S aside
SameExcept(f, g, S) ==
    /\ DOMAIN f \ S = DOMAIN g \ S
    /\ \A p \in DOMAIN f \ S : f[p] = g[p]

\* path p holds the complete bytes the file src had before the run
HasContent(f, p, src) == Present(f, p) /\ f[p] = Original(src)

\* the number of paths holding the complete bytes of src
Copies(f, src) == Cardinality({q \in DOMAIN f : f[q] = Original(src)})

\* the previous file: the copy succeeded and the delete of the source failed
DeleteFailed == JustEnded /\ last.outcome = "failed" /\ last.copied

\* the previous file: the copy itself failed
CopyFailed == JustEnded /\ last.outcome = "failed" /\ ~last.copied

---------------------------------------------------------------------------
(* C1: in execute mode, at every step of the processing of a file and after every *)
(* failure point (copy failure, source-delete failure, rollback failure), the     *)
(* file's content is present at the source path or at the destination path.      *)
C1_ContentAtSourceOrDestination ==
    ~dry_run =>
        /\ InProcess =>
              HasContent(fs, Src, Src) \/ HasContent(fs, new_path, Src)
        /\ last.outcome # "none" =>
              HasContent(fs, last.src, last.src) \/ HasContent(fs, last.dst, last.src)

\* C1 witness: a delete failure followed by a rollback failure has happened
C1_Witness ==
    /\ ~dry_run
    /\ DeleteFailed
    /\ last.cleanup = "failed"
    /\ HasContent(fs, last.src, last.src)

C3_Original ==
    DeleteFailed => (fs = fs0 /\ last.errors >= 1)

(* C3 as amended: the failure is reported and the deletion of the destination is  *)
(* attempted; when it succeeds the filesystem is back in the pre-operation state, *)
(* when it fails (a second reported error) source and destination both remain.    *)
C3_RollbackRestoresUnlessItFails ==
    DeleteFailed =>
        /\ last.errors >= 1
        /\ last.cleanup \in {"done", "failed"}
        /\ last.cleanup = "done" => fs = fs0
        /\ last.cleanup = "failed" =>
              /\ last.errors >= 2
              /\ ~Present(fs0, last.dst)
              /\ Present(fs, last.dst) /\ fs[last.dst] = fs0[last.src]
              /\ SameExcept(fs, fs0, {last.dst})

\* C3 witness: a delete failure was rolled back
C3_Witness ==
    DeleteFailed /\ last.cleanup = "done" /\ ~Present(fs, last.dst)

(* C4 as stated: after a source-delete failure that follows a successful copy,    *)
(* processing never ends with two copies on disk: it ends with zero or one.       *)
C4_Original ==
    DeleteFailed => Copies(fs, last.src) \in {0, 1}

(* C4 as amended: it ends with exactly one copy (the source) when the rollback    *)
(* deletion succeeds and with two copies when the rollback deletion fails.        *)
C4_OneCopyUnlessRollbackFails ==
    DeleteFailed =>
        /\ HasContent(fs, last.src, last.src)
        /\ Copies(fs, last.src) = IF last.cleanup = "failed" THEN 2 ELSE 1

\* C4 witness: a delete failure ended with one copy
C4_Witness ==
    DeleteFailed /\ Copies(fs, last.src) = 1 /\ last.errors = 1

(* C5 as stated: when the copy step fails, the source is neither deleted nor      *)
(* modified and no further filesystem action is performed for that file.         *)
C5_Original ==
    [][(pc \in {"except", "cleanup"} /\ ~copied) => fs' = fs]_vars

(* C5 as amended: when the copy step fails, the source is neither deleted nor     *)
(* modified and processing of the file is aborted; the only further filesystem   *)
(* action is the removal of the destination file the failed copy left behind.    *)
C5_CopyFailureKeepsSource ==
    [][(pc \in {"except", "cleanup"} /\ ~copied) =>
          /\ Present(fs', Src) /\ fs'[Src] = fs[Src]
          /\ \/ fs' = fs
             \/ /\ ~Present(fs0, new_path)
                /\ ~Present(fs', new_path)
                /\ SameExcept(fs', fs, {new_path})
          /\ pc' \in {"cleanup", "loop"}
          /\ pc' = "loop" => last'.outcome = "failed"]_vars

\* C5 witness: a failed copy left a destination file, which the clean-up removed
C5_Witness ==
    CopyFailed /\ last.cleanup = "done" /\ fs = fs0

C7_DryRunLeavesFilesystem ==
    dry_run =>
        /\ fs = fs_init
        /\ ~copied
        /\ last.outcome \in {"none", "no_text", "no_info", "raised", "dry_run"}
        /\ last.outcome = "dry_run" =>
              /\ last.dst.dir = output_dir
              /\ ~Present(fs, last.dst)

\* C7 witness: a dry run has reported a numbered destination for a file
C7_Witness ==
    /\ dry_run
    /\ JustEnded /\ last.outcome = "dry_run"
    /\ counter > 1

---------------------------------------------------------------------------
(* Collision resolution: what the loop of the code establishes *)

\* the numbered name the running function builds
CodeNumbered(name, c) ==
    IF kind = "pdf" THEN PdfNumbered(name, c) ELSE ImgNumbered(name, c)

\* the candidate path, output_dir / new_filename
Candidate == Path(output_dir, new_filename)

\* Lemma: when the while loop is left, new_path does not exist; it is the candidate
\* when the loop body never ran, else the name the code built from the last counter
\* value, the candidate and every name built from a smaller counter value being taken
CollisionLoopPostcondition ==
    pc = "materialize" =>
        /\ ~Present(fs, new_path)
        /\ counter = 1 => new_path = Candidate
        /\ counter > 1 =>
              /\ Present(fs, Candidate)
              /\ new_path = Path(output_dir, CodeNumbered(new_filename, counter - 1))
              /\ \A k \in 1..(counter - 2) :
                    Present(fs, Path(output_dir, CodeNumbered(new_filename, k)))

\* the candidate with " (N)" inserted immediately before its final extension, or at
\* its end when it has none: the collision suffix format of the specification
WithSuffix(name, n) ==
    IF Positions(name, ".") = {}
    THEN name \o <<" ", "(">> \o IntToStr(n) \o <<")">>
    ELSE RSplitHead(name, ".") \o <<" ", "(">> \o IntToStr(n) \o <<")", ".">>
             \o SplitLast(name, ".")

(* C8: collision resolution returns the desired path unchanged when it does not   *)
(* exist; otherwise it returns 'stem (N).ext' for the smallest N >= 1 such that   *)
(* this path does not exist. The returned path does not exist. (Stated for the    *)
(* desired paths that have a stem and an extension.)                              *)
C8_Original ==
    (pc = "materialize" /\ Positions(new_filename, ".") # {}) =>
        /\ ~Present(fs, new_path)
        /\ ~Present(fs, Candidate) => new_path = Candidate
        /\ Present(fs, Candidate) =>
              \E n \in 1..(Cardinality(DOMAIN fs) + 1) :
                  /\ new_path = Path(output_dir, WithSuffix(new_filename, n))
                  /\ \A k \in 1..(n - 1) :
                        Present(fs, Path(output_dir, WithSuffix(new_filename, k)))

(* C9: for every candidate file name, whatever its extension, for PDFs and for    *)
(* screenshots, the disambiguated name is the candidate with ' (N)' inserted      *)
(* immediately before its final extension, in the same directory, the extension   *)
(* itself unchanged.                                                              *)
C9_Original ==
    (pc = "materialize" /\ counter > 1) =>
        /\ new_path.dir = output_dir
        /\ new_path.name = WithSuffix(new_filename, counter - 1)
        /\ SplitLast(new_path.name, ".") = SplitLast(new_filename, ".")
              \/ Positions(new_filename, ".") = {}

(* C10: in a single-writer sequential run no file that exists when a file is      *)
(* processed, files created earlier in the run included, is overwritten or        *)
(* removed: a step changes or removes only the source of the file in process or   *)
(* the destination that this processing created.                                  *)
C10_OnlyOwnFilesTouched ==
    [][\A p \in DOMAIN fs :
          (~Present(fs', p) \/ fs'[p] # fs[p]) =>
              /\ InProcess
              /\ \/ p = Src
                 \/ p = new_path /\ ~Present(fs0, p)]_vars

\* C10 witness: a file is being copied next to the file an earlier step of the same
\* run moved to the same candidate name
C10_Witness ==
    /\ pc = "unlink"
    /\ last.outcome = "moved"
    /\ last.dst = Candidate
    /\ new_path # Candidate
    /\ HasContent(fs, last.dst, last.src)
    /\ HasContent(fs, new_path, Src)

---------------------------------------------------------------------------
(* The directory loop *)

\* the enumerated list, in the order process_directory goes through it
AllFiles == pdf_files \o screenshot_files

\* the outcomes of a file whose processing failed
FailureOutcomes == {"no_text", "no_info", "raised", "failed"}

(* C11: a failure while processing one file (extraction, templating or             *)
(* materialization, returned or raised) never terminates the directory loop: the   *)
(* files are attempted in the order of the enumerated list, the end of a file's    *)
(* processing, failed or not, leads back to the loop with the list unchanged, and  *)
(* process_directory returns only when every file of the list has been attempted.  *)
C11_FailureNeverEndsLoop ==
    [][/\ Len(attempted') <= Len(AllFiles')
       /\ attempted' = SubSeq(AllFiles', 1, Len(attempted'))
       /\ pc' = "done" => attempted' = AllFiles'
       /\ (InProcess /\ ~InProcess') =>
              /\ pc' = "loop"
              /\ last'.src = attempted[Len(attempted)]
              /\ UNCHANGED <<pdf_files, screenshot_files, attempted>>]_vars

\* C11 witness: the first file's processing raised and the second file is in process
C11_Witness ==
    /\ InProcess
    /\ last.outcome = "raised"
    /\ Len(attempted) = 2
    /\ last.src = attempted[1]
    /\ Src = attempted[2]

(* C12: whenever the processing of a file fails at a stage other than an           *)
(* unsuccessful rollback (no text, no metadata, template error, copy failure,      *)
(* delete failure with successful rollback), the file is skipped with its original *)
(* at its original path and no destination file left behind: the filesystem is the *)
(* one before the file was processed.  The original stays in place in every case.  *)
C12_FailedFileStaysInPlace ==
    (JustEnded /\ last.outcome \in FailureOutcomes) =>
        /\ HasContent(fs, last.src, last.src)
        /\ last.cleanup # "failed" =>
              /\ ~Present(fs, last.dst)
              /\ SameExcept(fs, fs0, {})

\* C12 witness: a copy has failed without leaving a destination file; the file is
\* skipped and stays where it was
C12_Witness ==
    /\ CopyFailed
    /\ last.cleanup = "none"
    /\ last.dst.dir = output_dir
    /\ HasContent(fs, last.src, last.src)


\* the file whose processing began last
Current == attempted[Len(attempted)]

(* C24: within one run, files are processed strictly one at a time in enumeration  *)
(* order (all PDFs, then all screenshots): the files begun so far are an initial   *)
(* part of the list of the PDFs followed by the screenshots; a file begins only    *)
(* when no file is in process and the file before it has ended with an outcome;    *)
(* while a file is in process no other file begins, every change of the filesystem *)
(* is at that file's source or destination, and the outcome recorded when the      *)
(* processing ends is that file's.                                                 *)
C24_OneFileAtATime ==
    [][/\ Len(attempted') <= Len(pdf_files') + Len(screenshot_files')
       /\ \A k \in 1..Len(attempted') :
             attempted'[k] = IF k <= Len(pdf_files') THEN pdf_files'[k]
                             ELSE screenshot_files'[k - Len(pdf_files')]
       /\ attempted' # attempted =>
             /\ ~InProcess /\ InProcess'
             /\ attempted' = Append(attempted, attempted'[Len(attempted')])
             /\ attempted # <<>> => (last.outcome # "none" /\ last.src = Current)
       /\ InProcess =>
             /\ attempted' = attempted
             /\ \A p \in DOMAIN fs \cup DOMAIN fs' :
                   (Present(fs, p) # Present(fs', p)
                       \/ (Present(fs, p) /\ Present(fs', p) /\ fs'[p] # fs[p])) =>
                       p \in {Current, new_path}
             /\ ~InProcess' => last'.src = Current
       /\ ~InProcess => fs' = fs]_vars

\* C24 witness: the PDF was moved and the screenshot, begun after it, is being copied
C24_Witness ==
    /\ pc = "unlink"
    /\ Len(attempted) = 2
    /\ attempted = pdf_files \o screenshot_files
    /\ Len(pdf_files) = 1
    /\ last.outcome = "moved" /\ last.src = attempted[1]
    /\ ~Present(fs, attempted[1])
    /\ HasContent(fs, new_path, attempted[2])

---------------------------------------------------------------------------
(* file_renamer/models.py: strings *)

\* the whitespace characters of str.split() and str.strip() that the texts hold
Whitespace == {" ", "\t", "\n"}

\* the smallest element of a non-empty set of naturals
SetMin(S) == CHOOSE m \in S : \A k \in S : m <= k

\* the text of n characters c
Rep(c, n) == [i \in 1..n |-> c]

\* the k-th smallest element of a set of naturals
Nth(S, k) == CHOOSE i \in S : Cardinality({j \in S : j < i}) = k - 1

\* s.split(): the maximal runs of non-whitespace characters of s, in order
SplitWs(s) ==
    LET starts == {i \in 1..Len(s) :
                      s[i] \notin Whitespace /\ (i = 1 \/ s[i - 1] \in Whitespace)}
        ends == {i \in 1..Len(s) :
                      s[i] \notin Whitespace /\ (i = Len(s) \/ s[i + 1] \in Whitespace)}
    IN  [k \in 1..Cardinality(starts) |-> SubSeq(s, Nth(starts, k), Nth(ends, k))]

\* sep.join(words)
RECURSIVE Join(_, _)
Join(sep, words) ==
    IF words = <<>> THEN <<>>
    ELSE IF Len(words) = 1 THEN words[1]
    ELSE words[1] \o sep \o Join(sep, Tail(words))

\* s.strip()
Strip(s) ==
    LET ks == {k \in 1..Len(s) : s[k] \notin Whitespace}
    IN  IF ks = {} THEN <<>> ELSE SubSeq(s, SetMin(ks), SetMax(ks))

---------------------------------------------------------------------------
(* BibliographicInfo._clean_for_filename, ScreenshotInfo._clean_for_filename *)

\* invalid_chars = '<>:"/\\|?*'
invalid_chars == {"<", ">", ":", "\"", "/", "\\", "|", "?", "*"}

\* max_length = 200
max_length == 200

\* the text '...'
Ellipsis == <<".", ".", ".">>

\* a faulty variant of RemoveInvalid: no character is removed
RemoveNothing(text) == text

\* for char in invalid_chars: text = text.replace(char, '')
RemoveInvalid(text) == SelectSeq(text, LAMBDA c : c \notin invalid_chars)

\* text = ' '.join(text.split())
CollapseSpaces(text) == Join(<<" ">>, SplitWs(text))

\* if len(text) > max_length: text = text[:max_length].rsplit(' ', 1)[0] + '...'
Truncate(text) ==
    IF Len(text) > max_length
    THEN RSplitHead(SubSeq(text, 1, max_length), " ") \o Ellipsis
    ELSE text

\* _clean_for_filename(text)
clean_for_filename(text) == Strip(Truncate(CollapseSpaces(RemoveInvalid(text))))

---------------------------------------------------------------------------
(* Calls of _clean_for_filename *)

\* a call of a function of models.py leaves the variables of the directory run alone
RunUnchanged ==
    UNCHANGED <<fs, dry_run, output_dir, pdf_files, screenshot_files, kind, idx, pc,
                new_filename, new_path, counter, errors, copied, fs0, fs_init, last,
                attempted>>

\* the short texts have at most this many characters
MaxText == 3

\* the long texts have runs of characters this close to max_length
MaxPad == 2

\* the characters of the texts: a letter, whitespace, an invalid character, a period
TextChars == {"a", " ", "\t", ":", "."}

\* the texts over TextChars of at most n characters
Texts(n) == UNION {[1..k -> TextChars] : k \in 0..n}

\* texts about max_length long: a run of 'a', a run of 'b', and a character or none
\* before and between them
LongTexts ==
    {h \o Rep("a", n) \o m \o Rep("b", k) :
        h \in Texts(1), m \in Texts(1),
        n \in (max_length - MaxPad - 1)..(max_length + 1), k \in 0..(MaxPad + 1)}

\* the calls of _clean_for_filename that are examined
CleanCalls ==
    \E x \in Texts(MaxText) \cup LongTexts :
        call = [fn |-> "clean", stage |-> "input", text |-> x, collapsed |-> <<>>,
                out |-> <<>>, again |-> <<>>]

\* _clean_for_filename(text); collapsed records the text after line 116
CleanCall ==
    /\ call.fn = "clean" /\ call.stage = "input"
    /\ call' = [call EXCEPT !.stage = "once",
                            !.collapsed = CollapseSpaces(RemoveInvalid(call.text)),
                            !.out = clean_for_filename(call.text)]
    /\ RunUnchanged

\* _clean_for_filename applied to the result of the call
CleanAgain ==
    /\ call.fn = "clean" /\ call.stage = "once"
    /\ call' = [call EXCEPT !.stage = "twice",
                            !.again = clean_for_filename(call.out)]
    /\ RunUnchanged

---------------------------------------------------------------------------
(* BibliographicInfo._format_multiple_last_names *)

\* the text "Unknown"
Unknown == <<"U", "n", "k", "n", "o", "w", "n">>

\* separators = [' and ', ', ', ' & ', ';']
separators ==
    << <<" ", "a", "n", "d", " ">>, <<",", " ">>, <<" ", "&", " ">>, <<";">> >>

\* sep is in s at position p
OccursAt(s, sep, p) ==
    /\ p + Len(sep) - 1 <= Len(s)
    /\ SubSeq(s, p, p + Len(sep) - 1) = sep

\* s.split(sep): the texts between the occurrences of sep, found from the left
RECURSIVE SplitOn(_, _)
SplitOn(s, sep) ==
    LET ps == {p \in 1..Len(s) : OccursAt(s, sep, p)}
    IN  IF ps = {} THEN <<s>>
        ELSE <<SubSeq(s, 1, SetMin(ps) - 1)>>
                 \o SplitOn(SubSeq(s, SetMin(ps) + Len(sep), Len(s)), sep)

\* [n.strip() for n in name.split(sep) if n.strip()]
StrippedParts(name, sep) ==
    LET parts == SplitOn(name, sep)
    IN  SelectSeq([k \in 1..Len(parts) |-> Strip(parts[k])], LAMBDA n : n # <<>>)

\* the inner loop: new_names after "for name in names: new_names.extend(...)"
RECURSIVE SplitNames(_, _)
SplitNames(names, sep) ==
    IF names = <<>> THEN <<>>
    ELSE StrippedParts(Head(names), sep) \o SplitNames(Tail(names), sep)

\* the outer loop: names after "for sep in separators" over the separators seps
RECURSIVE SplitBySeparators(_, _)
SplitBySeparators(names, seps) ==
    IF seps = <<>> THEN names
    ELSE SplitBySeparators(SplitNames(names, Head(seps)), Tail(seps))

\* a faulty variant of UniqueNames: every name is appended
UniqueNamesKeepsAll(names) == names

\* unique_names: the names not seen before, in order
UniqueNames(names) ==
    LET keep == {k \in 1..Len(names) : \A j \in 1..(k - 1) : names[j] # names[k]}
    IN  [i \in 1..Cardinality(keep) |-> Strip(names[Nth(keep, i)])]

\* the return statements, lines 158-165
FormatNames(unique_names) ==
    IF unique_names = <<>> THEN Unknown
    ELSE IF Len(unique_names) = 1 THEN unique_names[1]
    ELSE IF Len(unique_names) <= 3 THEN Join(<<",", " ">>, unique_names)
    ELSE Join(<<",", " ">>, SubSeq(unique_names, 1, 3)) \o <<" ", "e", "t", " ", "a", "l">>

\* _format_multiple_last_names(name_string)
format_multiple_last_names(name_string) ==
    IF name_string = <<>> THEN Unknown
    ELSE FormatNames(UniqueNames(SplitBySeparators(<<name_string>>, separators)))

---------------------------------------------------------------------------
(* Calls of _format_multiple_last_names *)

\* a name_string holds at most this many names
MaxNames == 4

\* the names a name_string is put together from: with different case, with a space
\* to trim, and empty
NamePool == {<<"A">>, <<"B">>, <<"a">>, <<" ", "C">>, <<>>}

\* the text of the names ns with the separators ss between them
RECURSIVE Interleave(_, _)
Interleave(ns, ss) ==
    IF ns = <<>> THEN <<>>
    ELSE IF Len(ns) = 1 THEN ns[1]
    ELSE ns[1] \o ss[1] \o Interleave(Tail(ns), Tail(ss))

\* the separators between k names: from the r-th separator on, the same one each
\* time (d = 0) or going through the list upwards (d = 1) or downwards (d = 3)
Between(k, r, d) ==
    [j \in 1..(k - 1) |-> separators[((r - 1 + (j - 1) * d) % Len(separators)) + 1]]

\* the calls of _format_multiple_last_names that are examined: up to MaxNames names
\* of NamePool with separators between them
NamesCalls ==
    \E k \in 1..MaxNames :
        \E ns \in [1..k -> NamePool] :
            \E r \in 1..Len(separators), d \in {0, 1, 3} :
                call = [fn |-> "names", stage |-> "input", pieces |-> ns,
                        between |-> Between(k, r, d),
                        text |-> Interleave(ns, Between(k, r, d)), out |-> <<>>]

\* _format_multiple_last_names(name_string)
NamesCall ==
    /\ call.fn = "names" /\ call.stage = "input"
    /\ call' = [call EXCEPT !.stage = "done",
                            !.out = format_multiple_last_names(call.text)]
    /\ RunUnchanged

---------------------------------------------------------------------------
(* BibliographicInfo: the fields and the properties *)

\* an Optional[str] field: None, or a text
None == [some |-> FALSE, text |-> <<>>]

Some(t) == [some |-> TRUE, text |-> t]

\* the truth value of an Optional[str]: neither None nor ''
Truthy(o) == o.some /\ o.text # <<>>

\* the text ' (Ed.)'
EdSuffix == <<" ", "(", "E", "d", ".", ")">>

\* property author_or_editor
author_or_editor(self) ==
    IF Truthy(self.author) THEN self.author.text
    ELSE IF Truthy(self.editor) THEN self.editor.text \o EdSuffix
    ELSE Unknown

\* a faulty variant of author_or_editor_last: the editor is looked at first
EditorLastFirst(self) ==
    IF Truthy(self.editor_last)
    THEN format_multiple_last_names(self.editor_last.text) \o EdSuffix
    ELSE IF Truthy(self.author_last) THEN format_multiple_last_names(self.author_last.text)
    ELSE Unknown

\* property author_or_editor_last
author_or_editor_last(self) ==
    IF Truthy(self.author_last) THEN format_multiple_last_names(self.author_last.text)
    ELSE IF Truthy(self.editor_last)
         THEN format_multiple_last_names(self.editor_last.text) \o EdSuffix
    ELSE Unknown

\* s.rstrip()
RStrip(s) ==
    LET ks == {k \in 1..Len(s) : s[k] \notin Whitespace}
    IN  IF ks = {} THEN <<>> ELSE SubSeq(s, 1, SetMax(ks))

\* a faulty variant of full_title: the subtitle is left out
TitleAlone(self) == self.title

\* property full_title
full_title(self) ==
    IF Truthy(self.subtitle)
    THEN (IF \E c \in {".", "!", "?", ":"} : EndsWith(RStrip(self.title), <<c>>)
          THEN RStrip(self.title)
          ELSE RStrip(self.title) \o <<".">>)
             \o <<" ">> \o self.subtitle.text
    ELSE self.title

---------------------------------------------------------------------------
(* Calls of the properties of BibliographicInfo *)

\* the values of author and of editor
PersonValues == {None, Some(<<>>), Some(<<"P", " ", "Q">>)}

\* the values of author_last and of editor_last
LastNameValues ==
    {None, Some(<<>>), Some(<<" ">>), Some(<<"Q">>),
     Some(<<"Q", " ", "a", "n", "d", " ", "R">>)}

\* the values of title: with and without terminal punctuation, with whitespace at
\* the end, empty
TitleValues ==
    {<<>>, <<"T">>, <<"T", ".">>, <<"T", "!">>, <<"T", "?">>, <<"T", ":">>,
     <<"T", ";">>, <<"T", " ">>, <<"T", ".", " ">>}

\* the values of subtitle
SubtitleValues == {None, Some(<<>>), Some(<<"S">>), Some(<<"S", ".">>)}

\* the records whose author and editor properties are examined
AuthorCalls ==
    \E a \in PersonValues, al \in LastNameValues, e \in PersonValues,
       el \in LastNameValues :
        call = [fn |-> "authors", stage |-> "input",
                info |-> [author |-> a, author_last |-> al, editor |-> e,
                          editor_last |-> el],
                full |-> <<>>, last |-> <<>>]

\* the properties author_or_editor and author_or_editor_last are read
AuthorCall ==
    /\ call.fn = "authors" /\ call.stage = "input"
    /\ call' = [call EXCEPT !.stage = "done",
                            !.full = author_or_editor(call.info),
                            !.last = author_or_editor_last(call.info)]
    /\ RunUnchanged

\* the records whose full_title is examined
TitleCalls ==
    \E t \in TitleValues, st \in SubtitleValues :
        call = [fn |-> "full_title", stage |-> "input",
                info |-> [title |-> t, subtitle |-> st], out |-> <<>>]

\* the property full_title is read
TitleCall ==
    /\ call.fn = "full_title" /\ call.stage = "input"
    /\ call' = [call EXCEPT !.stage = "done", !.out = full_title(call.info)]
    /\ RunUnchanged

---------------------------------------------------------------------------
(* str.format and the two format_filename methods.  A template is a sequence of   *)
(* symbols: the braces, the characters of the literal text, and the names that    *)
(* stand between braces, each name one symbol.                                    *)

\* the result of template.format(**kwargs): the text, or the exception raised
Formatted(text) == [ok |-> TRUE, text |-> text, error |-> "none", key |-> <<>>]

Raises(error, key) == [ok |-> FALSE, text |-> <<>>, error |-> error, key |-> key]

\* template.format(**kwargs) from position i on, after the text out: '{{' and '}}'
\* are the braces, '{name}' is kwargs[name] (KeyError(name) without it, IndexError
\* for the empty name), any other brace is a ValueError
RECURSIVE FormatFrom(_, _, _, _)
FormatFrom(t, kwargs, i, out) ==
    IF i > Len(t) THEN Formatted(out)
    ELSE IF t[i] = "{"
    THEN IF i < Len(t) /\ t[i + 1] = "{"
         THEN FormatFrom(t, kwargs, i + 2, Append(out, "{"))
         ELSE IF {j \in (i + 1)..Len(t) : t[j] = "}"} = {}
         THEN Raises("ValueError", <<>>)
         ELSE LET j == SetMin({k \in (i + 1)..Len(t) : t[k] = "}"})
                  field == SubSeq(t, i + 1, j - 1)
              IN  IF \E k \in 1..Len(field) : field[k] = "{"
                  THEN Raises("ValueError", <<>>)
                  ELSE IF field = <<>> THEN Raises("IndexError", <<>>)
                  ELSE IF Len(field) = 1 /\ field[1] \in DOMAIN kwargs
                  THEN FormatFrom(t, kwargs, j + 1, out \o kwargs[field[1]])
                  ELSE Raises("KeyError", field)
    ELSE IF t[i] = "}"
    THEN IF i < Len(t) /\ t[i + 1] = "}"
         THEN FormatFrom(t, kwargs, i + 2, Append(out, "}"))
         ELSE Raises("ValueError", <<>>)
    ELSE FormatFrom(t, kwargs, i + 1, Append(out, t[i]))

\* the texts "Unknown Year", "Unknown-Date" and "Screenshot"
UnknownYear == <<"U", "n", "k", "n", "o", "w", "n", " ", "Y", "e", "a", "r">>

UnknownDate == <<"U", "n", "k", "n", "o", "w", "n", "-", "D", "a", "t", "e">>

ScreenshotText == <<"S", "c", "r", "e", "e", "n", "s", "h", "o", "t">>

\* self.year or "Unknown Year": the text of the field, d when it is None or ''
OrElse(o, d) == IF Truthy(o) THEN o.text ELSE d

\* a faulty variant of DocumentKwargs: full_title is not passed to format
DocumentKwargsWithoutFullTitle(self) ==
    [author_or_editor |-> clean_for_filename(author_or_editor(self)),
     author_or_editor_last |-> clean_for_filename(author_or_editor_last(self)),
     author |-> clean_for_filename(OrElse(self.author, <<>>)),
     author_last |-> clean_for_filename(OrElse(self.author_last, <<>>)),
     editor |-> clean_for_filename(OrElse(self.editor, <<>>)),
     editor_last |-> clean_for_filename(OrElse(self.editor_last, <<>>)),
     year |-> clean_for_filename(OrElse(self.year, UnknownYear)),
     title |-> clean_for_filename(self.title),
     subtitle |-> clean_for_filename(OrElse(self.subtitle, <<>>))]

\* BibliographicInfo.format_filename: the keyword arguments of template.format,
\* each the cleaned variable of lines 80-89
DocumentKwargs(self) ==
    [author_or_editor |-> clean_for_filename(author_or_editor(self)),
     author_or_editor_last |-> clean_for_filename(author_or_editor_last(self)),
     author |-> clean_for_filename(OrElse(self.author, <<>>)),
     author_last |-> clean_for_filename(OrElse(self.author_last, <<>>)),
     editor |-> clean_for_filename(OrElse(self.editor, <<>>)),
     editor_last |-> clean_for_filename(OrElse(self.editor_last, <<>>)),
     year |-> clean_for_filename(OrElse(self.year, UnknownYear)),
     title |-> clean_for_filename(self.title),
     subtitle |-> clean_for_filename(OrElse(self.subtitle, <<>>)),
     full_title |-> clean_for_filename(full_title(self))]

\* a faulty variant of format_filename: the assembled name is cleaned
FormatThenClean(self, template) ==
    LET r == FormatFrom(template, DocumentKwargs(self), 1, <<>>)
    IN  IF r.ok THEN Formatted(clean_for_filename(r.text)) ELSE r

\* BibliographicInfo.format_filename(template)
format_filename(self, template) == FormatFrom(template, DocumentKwargs(self), 1, <<>>)

\* ScreenshotInfo.format_filename: datetime, from the cleaned date and time
DateTime(date, time) ==
    IF date # UnknownDate /\ time # <<>>
    THEN Strip(date \o <<" ">> \o time)
    ELSE date

\* ScreenshotInfo.format_filename: the keyword arguments of template.format
ScreenshotKwargs(self) ==
    [application |-> clean_for_filename(OrElse(self.application, Unknown)),
     date |-> clean_for_filename(OrElse(self.date, UnknownDate)),
     time |-> clean_for_filename(OrElse(self.time, <<>>)),
     datetime |->
         DateTime(clean_for_filename(OrElse(self.date, UnknownDate)),
                  clean_for_filename(OrElse(self.time, <<>>))),
     content_type |-> clean_for_filename(OrElse(self.content_type, ScreenshotText)),
     main_subject |-> clean_for_filename(self.main_subject)]

\* ScreenshotInfo.format_filename(template)
screenshot_format_filename(self, template) ==
    FormatFrom(template, ScreenshotKwargs(self), 1, <<>>)

---------------------------------------------------------------------------
(* Calls of the two format_filename methods *)

\* a template has at most this many segments
MaxSegments == 3

\* a segment of a template: a literal character, or a placeholder '{name}'
Lit(c) == [lit |-> TRUE, sym |-> c]

Key(name) == [lit |-> FALSE, sym |-> name]

\* the template of a sequence of segments
RECURSIVE Render(_)
Render(segs) ==
    IF segs = <<>> THEN <<>>
    ELSE (IF Head(segs).lit THEN <<Head(segs).sym>> ELSE <<"{", Head(segs).sym, "}">>)
             \o Render(Tail(segs))

\* the literal characters of the templates
Literals == {Lit("|"), Lit("."), Lit(" ")}

\* the segments of the templates given to BibliographicInfo.format_filename: the
\* names the method passes to format, two names it does not pass, and the literals
DocumentSegments ==
    {Key(n) : n \in {"author_or_editor", "author_or_editor_last", "author",
                     "author_last", "editor", "editor_last", "year", "title",
                     "subtitle", "full_title", "bogus", "datetime"}}
        \cup Literals

\* the segments of the templates given to ScreenshotInfo.format_filename
ScreenshotSegments ==
    {Key(n) : n \in {"application", "date", "time", "datetime", "content_type",
                     "main_subject", "bogus", "title"}}
        \cup Literals

\* the document records: every field given, with characters to remove and spaces to
\* collapse; the title alone; an edited volume
DocumentInfos ==
    {[author |-> Some(<<"P", "|", " ", " ", "Q">>), author_last |-> Some(<<"Q">>),
      editor |-> Some(<<"E">>), editor_last |-> Some(<<"F">>),
      year |-> Some(<<"1", "9">>), title |-> <<"T", ":", " ", "U">>,
      subtitle |-> Some(<<"S">>)],
     [author |-> None, author_last |-> None, editor |-> None, editor_last |-> None,
      year |-> None, title |-> <<"T">>, subtitle |-> None],
     [author |-> None, author_last |-> Some(<<>>),
      editor |-> Some(<<"E", "/", "F">>), editor_last |-> Some(<<"F", " ", "&", " ", "G">>),
      year |-> Some(<<>>), title |-> <<"T", "?">>, subtitle |-> None]}

\* the calls of BibliographicInfo.format_filename that are examined
DocumentFormatCalls ==
    \E k \in 0..MaxSegments :
        \E segs \in [1..k -> DocumentSegments], info \in DocumentInfos :
            call = [fn |-> "format_doc", stage |-> "input", info |-> info,
                    segs |-> segs, template |-> Render(segs),
                    values |-> <<>>, out |-> Formatted(<<>>)]

\* BibliographicInfo.format_filename(template); values records the keyword
\* arguments of lines 92-103
DocumentFormatCall ==
    /\ call.fn = "format_doc" /\ call.stage = "input"
    /\ call' = [call EXCEPT !.stage = "done",
                            !.values = DocumentKwargs(call.info),
                            !.out = format_filename(call.info, call.template)]
    /\ RunUnchanged

\* the default screenshot_template of load_config
DefaultScreenshotSegments ==
    <<Key("datetime"), Lit(" "), Key("application"), Lit(" "), Lit("-"), Lit(" "),
      Key("main_subject"), Lit("."), Lit("p"), Lit("n"), Lit("g")>>

\* a date in YYYY-MM-DD form and two times in HH:MM form
ExampleDate == <<"2", "0", "2", "4", "-", "0", "1", "-", "0", "5">>

ExampleTime == <<"1", "4", ":", "3", "0">>

MorningTime == <<"0", "9", ":", "0", "5">>

\* the screenshot records
ScreenshotInfos ==
    {[application |-> a, date |-> d, time |-> t, content_type |-> None,
      main_subject |-> <<"L", "o", "g", "i", "n", " ", "E", "r", "r", "o", "r">>] :
        a \in {None, Some(<<"C", "h", "r", "o", "m", "e">>)},
        d \in {None, Some(<<>>), Some(ExampleDate), Some(UnknownDate)},
        t \in {None, Some(<<>>), Some(ExampleTime), Some(MorningTime)}}

\* the calls of ScreenshotInfo.format_filename that are examined: the default
\* template with every record, every short template with the records that have a date
ScreenshotFormatCalls ==
    \E k \in 0..(MaxSegments + 1) :
        \E segs \in IF k <= MaxSegments THEN [1..k -> ScreenshotSegments]
                    ELSE {DefaultScreenshotSegments} :
            \E info \in ScreenshotInfos :
                /\ k <= MaxSegments =>
                      /\ info.date = Some(ExampleDate)
                      /\ info.application # None
                      /\ info.time \in {None, Some(ExampleTime)}
                /\ call = [fn |-> "format_shot", stage |-> "input", info |-> info,
                           segs |-> segs, template |-> Render(segs),
                           values |-> <<>>, out |-> Formatted(<<>>)]

\* ScreenshotInfo.format_filename(template); values records the keyword arguments
\* of lines 213-220
ScreenshotFormatCall ==
    /\ call.fn = "format_shot" /\ call.stage = "input"
    /\ call' = [call EXCEPT !.stage = "done",
                            !.values = ScreenshotKwargs(call.info),
                            !.out = screenshot_format_filename(call.info, call.template)]
    /\ RunUnchanged

---------------------------------------------------------------------------
(* The calls of the functions of models.py, each from its arguments on *)

\* the variables of the directory run, which does not run
NoRun ==
    /\ fs = <<>>
    /\ dry_run = TRUE
    /\ output_dir = "in"
    /\ pdf_files = <<>>
    /\ screenshot_files = <<>>
    /\ kind = "pdf"
    /\ idx = 1
    /\ pc = "done"
    /\ new_filename = <<>>
    /\ new_path = NoPath
    /\ counter = 1
    /\ errors = 0
    /\ copied = FALSE
    /\ fs0 = <<>>
    /\ fs_init = <<>>
    /\ last = NoLast
    /\ attempted = <<>>

ModelsInit ==
    /\ NoRun
    /\ \/ CleanCalls
       \/ NamesCalls
       \/ AuthorCalls
       \/ TitleCalls
       \/ DocumentFormatCalls
       \/ ScreenshotFormatCalls

ModelsNext ==
    \/ CleanCall
    \/ CleanAgain
    \/ NamesCall
    \/ AuthorCall
    \/ TitleCall
    \/ DocumentFormatCall
    \/ ScreenshotFormatCall

ModelsSpec == ModelsInit /\ [][ModelsNext]_vars

---------------------------------------------------------------------------
(* The sanitizer *)

\* the illegal set of the specification: < > : " / \ | ? *
IllegalCharacters == {"<", ">", ":", "\"", "/", "\\", "|", "?", "*"}

\* the characters of s that are neither whitespace nor in the set S, in order
Visible(s, S) == SelectSeq(s, LAMBDA c : c \notin Whitespace /\ c \notin S)

\* where a text of more than 200 characters without whitespace runs is cut: before
\* the last space within its first 200 characters, at 200 when there is none
CutAt(c) ==
    LET spaces == {k \in 1..200 : c[k] = " "}
    IN  IF spaces = {} THEN 200 ELSE SetMax(spaces) - 1

(* C14: the sanitizer is idempotent: for every text x,                             *)
(* _clean_for_filename(_clean_for_filename(x)) = _clean_for_filename(x), the       *)
(* texts of more than 200 characters, which are truncated, included.               *)
C14_Original ==
    (call.fn = "clean" /\ call.stage = "twice") => call.again = call.out

(* C15: for every text the output of the sanitizer has none of the characters      *)
(* < > : " / \ | ? *, no run of two or more whitespace characters, no leading or   *)
(* trailing space and at most 203 characters; it has more than 200 only when the   *)
(* cleaned input (illegal characters removed, whitespace collapsed and trimmed)    *)
(* had more than 200, and then it is the cleaned input cut before the last space   *)
(* within its first 200 characters (at 200 if there is none) followed by '...'.    *)
C15_SanitizerOutput ==
    (call.fn = "clean" /\ call.stage # "input") =>
        LET out == call.out
            c == call.collapsed
        IN  /\ \A k \in 1..Len(out) : out[k] \notin IllegalCharacters
            /\ \A k \in 1..(Len(out) - 1) :
                  ~(out[k] \in Whitespace /\ out[k + 1] \in Whitespace)
            /\ out # <<>> => (out[1] \notin Whitespace /\ out[Len(out)] \notin Whitespace)
            /\ Len(out) <= 203
            /\ Visible(c, {}) = Visible(call.text, IllegalCharacters)
            /\ \A k \in 1..Len(c) : c[k] \notin IllegalCharacters
            /\ Len(c) <= 200 => out = c
            /\ Len(c) > 200 => out = SubSeq(c, 1, CutAt(c)) \o <<".", ".", ".">>
            /\ Len(out) > 200 => Len(c) > 200

\* C15 witness: a text of more than 200 characters with an illegal character was cut
\* at a space, and the output has more than 200 characters
C15_Witness ==
    /\ call.fn = "clean" /\ call.stage = "once"
    /\ Len(call.text) > Len(call.collapsed)
    /\ Len(call.collapsed) > 200
    /\ Len(call.out) > 200
    /\ Len(call.out) < 203
    /\ call.out # call.collapsed

---------------------------------------------------------------------------
(* The name-list formatter *)

\* the separators of the specification, in their order: ' and ', ', ', ' & ', ';'
NameSeparators ==
    << <<" ", "a", "n", "d", " ">>, <<",", " ">>, <<" ", "&", " ">>, <<";">> >>

\* the trimmed, non-empty ones of the texts ts, in order
TrimmedNonEmpty(ts) ==
    SelectSeq([k \in 1..Len(ts) |-> Strip(ts[k])], LAMBDA t : t # <<>>)

\* the tokens of a text after splitting on the first k separators in turn
RECURSIVE TokensIn(_, _)
RECURSIVE TokensOfAll(_, _)
TokensOfAll(ts, sep) ==
    IF ts = <<>> THEN <<>>
    ELSE TrimmedNonEmpty(SplitOn(Head(ts), sep)) \o TokensOfAll(Tail(ts), sep)

TokensIn(text, k) ==
    IF k = 0 THEN <<text>>
    ELSE TokensOfAll(TokensIn(text, k - 1), NameSeparators[k])

\* the texts ts without the repetitions of an earlier one, in order
RECURSIVE Dedup(_)
Dedup(ts) ==
    IF ts = <<>> THEN <<>>
    ELSE LET front == Dedup(SubSeq(ts, 1, Len(ts) - 1))
         IN  IF \E j \in 1..Len(front) : front[j] = ts[Len(ts)]
             THEN front
             ELSE Append(front, ts[Len(ts)])

\* the display text of a list of names
Display(ns) ==
    IF Len(ns) = 0 THEN <<"U", "n", "k", "n", "o", "w", "n">>
    ELSE IF Len(ns) = 1 THEN ns[1]
    ELSE IF Len(ns) = 2 THEN ns[1] \o <<",", " ">> \o ns[2]
    ELSE ns[1] \o <<",", " ">> \o ns[2] \o <<",", " ">> \o ns[3]
             \o (IF Len(ns) = 3 THEN <<>> ELSE <<" ", "e", "t", " ", "a", "l">>)

(* C17: for every text the name-list formatter returns, for the list of trimmed,   *)
(* non-empty tokens obtained by splitting on ' and ', ', ', ' & ', ';' in turn,    *)
(* deduplicated case-sensitively in first-seen order: 'Unknown' for no name, the   *)
(* name for one, the names joined by ', ' for two or three, the first three joined *)
(* by ', ' and ' et al' for four or more.  When every name put into the text is    *)
(* non-empty, the tokens are those names, trimmed.                                 *)
C17_NameListFormat ==
    (call.fn = "names" /\ call.stage = "done") =>
        LET tokens == Dedup(TokensIn(call.text, 4))
        IN  /\ call.out = Display(tokens)
            /\ (\A k \in 1..Len(call.pieces) : Strip(call.pieces[k]) # <<>>) =>
                  tokens = Dedup(TrimmedNonEmpty(call.pieces))

\* C17 witness: four different names with different separators between them are
\* returned as the first three and ' et al'
C17_Witness ==
    /\ call.fn = "names" /\ call.stage = "done"
    /\ Len(Dedup(TrimmedNonEmpty(call.pieces))) = 4
    /\ call.between[1] # call.between[2]
    /\ EndsWith(call.out, <<" ", "e", "t", " ", "a", "l">>)

---------------------------------------------------------------------------
(* The derived fields of a document record *)

\* an optional field is present: it has a value and the value is not empty
Given(o) == o.some /\ o.text # <<>>

EndsInTerminal(t) == t # <<>> /\ t[Len(t)] \in {".", "!", "?", ":"}

\* the text t without the whitespace at its end
WithoutTrailingSpace(t) ==
    IF \A k \in 1..Len(t) : t[k] \in Whitespace THEN <<>>
    ELSE SubSeq(t, 1, SetMax({k \in 1..Len(t) : t[k] \notin Whitespace}))

(* C19 as stated: full_title is the title alone when the subtitle is absent or     *)
(* empty; else it is the title, with a period appended if the title does not end   *)
(* in terminal punctuation, followed by a space and the subtitle.                  *)
C19_Original ==
    (call.fn = "full_title" /\ call.stage = "done") =>
        call.out =
            IF ~Given(call.info.subtitle) THEN call.info.title
            ELSE (IF EndsInTerminal(call.info.title) THEN call.info.title
                  ELSE call.info.title \o <<".">>)
                     \o <<" ">> \o call.info.subtitle.text

(* C19 as amended: full_title is the title alone when the subtitle is absent or    *)
(* empty; else it is the title without its trailing whitespace, with a period      *)
(* appended if that does not end in '.', '!', '?' or ':', followed by a space and  *)
(* the subtitle.                                                                   *)
C19_FullTitleTrimsTitle ==
    (call.fn = "full_title" /\ call.stage = "done") =>
        call.out =
            IF ~Given(call.info.subtitle) THEN call.info.title
            ELSE (IF EndsInTerminal(WithoutTrailingSpace(call.info.title))
                  THEN WithoutTrailingSpace(call.info.title)
                  ELSE WithoutTrailingSpace(call.info.title) \o <<".">>)
                     \o <<" ">> \o call.info.subtitle.text

\* C19 witness: a title without terminal punctuation got a period before the
\* subtitle
C19_Witness ==
    /\ call.fn = "full_title" /\ call.stage = "done"
    /\ call.info.title = <<"T">>
    /\ call.out = <<"T", ".", " ", "S">>

---------------------------------------------------------------------------
(* The template engine *)

\* the keys the specification enumerates for a document record
DocumentKeys ==
    {"author", "author_last", "editor", "editor_last", "author_or_editor",
     "author_or_editor_last", "year", "title", "subtitle", "full_title"}

\* the keys the specification enumerates for a screenshot record
ScreenshotKeys ==
    {"application", "date", "time", "datetime", "content_type", "main_subject"}

\* a call of one of the two format_filename methods has returned or raised
FormatDone == call.fn \in {"format_doc", "format_shot"} /\ call.stage = "done"

\* the positions of the template's placeholders whose key is not in the set keys
Unrecognized(segs, keys) ==
    {k \in 1..Len(segs) : ~segs[k].lit /\ segs[k].sym \notin keys}

(* C13: format_filename accepts a template key if and only if it is in the         *)
(* enumerated set of the variant (10 document keys, 6 screenshot keys): a template *)
(* with any other key fails with a key error that names the offending key (the     *)
(* first one in the template), whatever valid keys the template also has; a        *)
(* template with keys of the set only yields a name.                               *)
C13_UnknownKeyRaises ==
    FormatDone =>
        LET bad == Unrecognized(call.segs,
                                IF call.fn = "format_doc" THEN DocumentKeys
                                ELSE ScreenshotKeys)
        IN  /\ Cardinality(DocumentKeys) = 10 /\ Cardinality(ScreenshotKeys) = 6
            /\ call.out.ok <=> bad = {}
            /\ bad # {} =>
                  /\ call.out.error = "KeyError"
                  /\ call.out.key = <<call.segs[SetMin(bad)].sym>>

\* C13 witness: a template with a valid key before an unknown one has raised the
\* key error of the unknown one
C13_Witness ==
    /\ FormatDone
    /\ Len(call.segs) = 3
    /\ call.segs[1] = [lit |-> FALSE, sym |-> "title"]
    /\ call.segs[3] = [lit |-> FALSE, sym |-> "bogus"]
    /\ call.fn = "format_doc"
    /\ call.out.key = <<"bogus">>

\* the text of the segments with every placeholder replaced by its text in values
RECURSIVE Substituted(_, _)
Substituted(segs, values) ==
    IF segs = <<>> THEN <<>>
    ELSE (IF Head(segs).lit THEN <<Head(segs).sym>> ELSE values[Head(segs).sym])
             \o Substituted(Tail(segs), values)

(* C16: sanitization is applied to each field value before substitution and never  *)
(* to the assembled filename: every literal character of the template outside a    *)
(* placeholder ('|', the extension's period, spaces) is in the output unchanged and *)
(* in order, and each placeholder is replaced by exactly the sanitized value of    *)
(* its field.                                                                      *)
C16_FieldsSanitizedNotName ==
    (FormatDone /\ call.out.ok) =>
        /\ call.out.text = Substituted(call.segs, call.values)
        /\ \A n \in DOMAIN call.values :
              \A k \in 1..Len(call.values[n]) :
                  call.values[n][k] \notin IllegalCharacters
        /\ call.fn = "format_doc" =>
              /\ call.values.title = clean_for_filename(call.info.title)
              /\ \A n \in {"author", "author_last", "editor", "editor_last", "year",
                           "subtitle"} :
                    Given(call.info[n]) =>
                        call.values[n] = clean_for_filename(call.info[n].text)

\* C16 witness: the '|' of a template is in the name, the '|' of the author is not
C16_Witness ==
    /\ FormatDone
    /\ call.fn = "format_doc"
    /\ call.segs = <<[lit |-> FALSE, sym |-> "author"], [lit |-> TRUE, sym |-> "|"],
                     [lit |-> FALSE, sym |-> "title"]>>
    /\ call.info.author = [some |-> TRUE, text |-> <<"P", "|", " ", " ", "Q">>]
    /\ call.out.text = <<"P", " ", "Q", "|", "T", " ", "U">>

\* Lemma: datetime is the date alone when the time is absent or empty or the date
\* is absent, empty or 'Unknown-Date'
DatetimeCollapses ==
    (call.fn = "format_shot" /\ call.stage = "done"
        /\ (~Given(call.info.time) \/ ~Given(call.info.date)
               \/ call.info.date.text = UnknownDate)) =>
        call.values.datetime =
            IF Given(call.info.date) THEN call.info.date.text ELSE UnknownDate

(* C20: for a screenshot record with a date D in YYYY-MM-DD form and a time T in   *)
(* HH:MM form, {datetime} renders as 'D T' with T unchanged: application 'Chrome', *)
(* date '2024-01-05', time '14:30', main_subject 'Login Error' with the template   *)
(* '{datetime} {application} - {main_subject}.png' yields                         *)
(* '2024-01-05 14:30 Chrome - Login Error.png'; datetime is the date alone when    *)
(* the time is empty or the date is 'Unknown-Date'.                                *)
C20_Original ==
    (call.fn = "format_shot" /\ call.stage = "done") =>
        /\ (call.info.date = [some |-> TRUE, text |-> ExampleDate]
               /\ Given(call.info.time)) =>
              call.values.datetime = ExampleDate \o <<" ">> \o call.info.time.text
        /\ (call.segs = DefaultScreenshotSegments
               /\ call.info.application.text = <<"C", "h", "r", "o", "m", "e">>
               /\ call.info.date = [some |-> TRUE, text |-> ExampleDate]
               /\ call.info.time = [some |-> TRUE, text |-> ExampleTime]) =>
              call.out.text =
                  <<"2", "0", "2", "4", "-", "0", "1", "-", "0", "5", " ", "1",
                    "4", ":", "3", "0", " ", "C", "h", "r", "o", "m", "e", " ",
                    "-", " ", "L", "o", "g", "i", "n", " ", "E", "r", "r", "o",
                    "r", ".", "p", "n", "g">>
        /\ DatetimeCollapses

---------------------------------------------------------------------------
(* Placeholders of absent fields *)

\* the placeholder strings the specification documents
DocumentedPlaceholders == {Unknown, UnknownYear, UnknownDate, ScreenshotText}

\* the optional fields of the variant of the call
OptionalFields ==
    IF call.fn = "format_doc"
    THEN {"author", "author_last", "editor", "editor_last", "year", "subtitle"}
    ELSE {"application", "date", "time", "content_type"}

\* what the code does: an absent or empty year, application, date or content_type,
\* and the two derived author keys of a record without author and editor, are rendered as
\* documented placeholders
DefaultedFieldsRendered ==
    FormatDone =>
        /\ \A n \in OptionalFields \cap {"year", "application", "date", "content_type"} :
              ~Given(call.info[n]) => call.values[n] \in DocumentedPlaceholders
        /\ (call.fn = "format_doc" /\ \A n \in OptionalFields : ~Given(call.info[n])) =>
              /\ call.values.author_or_editor = Unknown
              /\ call.values.author_or_editor_last = Unknown

(* C21: every optional field of either variant (author, author_last, editor,       *)
(* editor_last, year, subtitle; application, date, time, content_type), when       *)
(* absent or empty, is rendered by its key as one of the documented placeholder    *)
(* strings 'Unknown', 'Unknown Year', 'Unknown-Date', 'Screenshot'; a record with  *)
(* only a title renders '{author_or_editor_last} {year}' as 'Unknown Unknown Year'.*)
C21_Original ==
    (FormatDone /\ call.out.ok) =>
        /\ \A n \in OptionalFields :
              (/\ ~Given(call.info[n])
               /\ call.segs = <<[lit |-> FALSE, sym |-> n], [lit |-> TRUE, sym |-> "|"]>>) =>
                  \E p \in DocumentedPlaceholders : call.out.text = p \o <<"|">>
        /\ (/\ call.fn = "format_doc"
            /\ \A n \in OptionalFields : ~Given(call.info[n])
            /\ call.segs = <<[lit |-> FALSE, sym |-> "author_or_editor_last"],
                             [lit |-> TRUE, sym |-> " "],
                             [lit |-> FALSE, sym |-> "year"]>>) =>
              call.out.text = Unknown \o <<" ">> \o UnknownYear

---------------------------------------------------------------------------
(* Steps of cli.py taken one by one: from the extractor's answer to the name *)

\* the default pdf_template of load_config
DefaultPdfSegments ==
    <<Key("author_or_editor_last"), Lit(" "), Key("year"), Lit(" "), Lit("-"), Lit(" "),
      Key("full_title"), Lit("."), Lit("p"), Lit("d"), Lit("f")>>

\* the record classes declare the required field as 'str' with Field(...): the
\* record is constructed from every string, the empty one too, and from no other value
Constructs(required) == required.some

\* the extractor answers that are examined, for documents and for screenshots: the
\* required field missing or null, empty, blank, given
ExtractCalls ==
    \E variant \in {"doc", "shot"}, other \in {None, Some(<<"Q">>)},
       required \in {None, Some(<<>>), Some(<<" ">>), Some(<<"T">>)} :
        call = [fn |-> "extract", stage |-> "input", variant |-> variant,
                required |-> required, other |-> other,
                out |-> Formatted(<<>>)]

\* the document record of an answer
AnswerDocument(c) ==
    [author |-> None, author_last |-> c.other, editor |-> None, editor_last |-> None,
     year |-> None, title |-> c.required.text, subtitle |-> None]

\* the screenshot record of an answer
AnswerScreenshot(c) ==
    [application |-> c.other, date |-> None, time |-> None, content_type |-> None,
     main_subject |-> c.required.text]

\* process_pdf lines 64-71 and process_screenshot lines 138-148 (for a '.png' file):
\* no record, and the file is skipped; a record, and its format_filename is called
ExtractCall ==
    /\ call.fn = "extract" /\ call.stage = "input"
    /\ IF Constructs(call.required)
       THEN call' = [call EXCEPT
                !.stage = "named",
                !.out = IF call.variant = "doc"
                        THEN format_filename(AnswerDocument(call),
                                             Render(DefaultPdfSegments))
                        ELSE screenshot_format_filename(AnswerScreenshot(call),
                                             Render(DefaultScreenshotSegments))]
       ELSE call' = [call EXCEPT !.stage = "no_info"]
    /\ RunUnchanged

---------------------------------------------------------------------------
(* process_screenshot: the name of a screenshot *)

\* str.lower() on the letters of the image patterns
Lower(s) ==
    LET upper == <<"P", "N", "G", "J", "E", "B", "M", "I", "F", "T", "W">>
        lower == <<"p", "n", "g", "j", "e", "b", "m", "i", "f", "t", "w">>
    IN  [k \in 1..Len(s) |->
            IF \E j \in 1..Len(upper) : upper[j] = s[k]
            THEN lower[CHOOSE j \in 1..Len(upper) : upper[j] = s[k]]
            ELSE s[k]]

\* Path.suffix: the last period of the name and what follows it; empty when the
\* name has no period, or only a leading one, or ends with it
Suffix(name) ==
    IF Positions(name, ".") = {} THEN <<>>
    ELSE LET i == SetMax(Positions(name, "."))
         IN  IF i = 1 \/ i = Len(name) THEN <<>> ELSE SubSeq(name, i, Len(name))

\* str.replace(old, new): every occurrence of old, from the left, not overlapping
RECURSIVE Replace(_, _, _)
Replace(t, old, new) ==
    IF Len(t) < Len(old) THEN t
    ELSE IF SubSeq(t, 1, Len(old)) = old
         THEN new \o Replace(SubSeq(t, Len(old) + 1, Len(t)), old, new)
         ELSE <<Head(t)>> \o Replace(Tail(t), old, new)

\* the screenshots that are named: an image file of every pattern, a configured
\* template (the default, one with another extension, one with none, one with '.png'
\* twice), a subject with or without a period
ShotNameCalls ==
    \E suf \in ImageSuffixes,
       subject \in {<<"L">>, <<"v", ".", "1">>},
       segs \in {DefaultScreenshotSegments,
                 <<Key("main_subject"), Lit("."), Lit("j"), Lit("p"), Lit("g")>>,
                 <<Key("main_subject")>>,
                 <<Key("main_subject")>> \o [k \in 1..8 |-> Lit((DotPng \o DotPng)[k])]} :
        call = [fn |-> "shot_name", stage |-> "input", pattern |-> suf,
                image_path |-> Path("in", <<"s">> \o suf),
                info |-> [application |-> None, date |-> None, time |-> None,
                          content_type |-> None, main_subject |-> subject],
                segs |-> segs, out |-> Formatted(<<>>), numbered |-> <<>>]

\* process_screenshot lines 146-148, and the name of the first turn of the loop of
\* lines 153-157
ShotNameCall ==
    /\ call.fn = "shot_name" /\ call.stage = "input"
    /\ LET original_ext == Lower(Suffix(call.image_path.name))
           template_with_ext == Replace(Render(call.segs), DotPng, original_ext)
           new == screenshot_format_filename(call.info, template_with_ext)
       IN  call' = [call EXCEPT !.stage = "named", !.out = new,
                                !.numbered = ImgNumbered(new.text, 1)]
    /\ RunUnchanged

---------------------------------------------------------------------------
(* Two workers: lines 74-98 of process_pdf run for two files at the same time, each *)
(* statement one step, against one output directory                               *)

\* the two workers at their while loops: the sources 'a.pdf' and 'b.pdf', the first
\* candidate 'X.pdf', the second 'X.pdf' or 'X.txt', some names taken; the record
\* holds the filesystem (fs) and the filesystem before the workers ran (fs0)
RaceCalls ==
    \E taken \in SUBSET {<<"X">> \o DotPdf, PdfNumbered(<<"X">> \o DotPdf, 1)},
       second \in {<<"X">> \o DotPdf, <<"X">> \o DotTxt} :
        LET sources == <<Path("in", <<"a">> \o DotPdf), Path("in", <<"b">> \o DotPdf)>>
            names == <<(<<"X">> \o DotPdf), second>>
            f == [p \in {sources[1], sources[2]} \cup {Path("out", n) : n \in taken} |->
                     Original(p)]
        IN  call = [fn |-> "race", fs0 |-> f, fs |-> f,
                    w |-> [i \in 1..2 |->
                              [pc |-> "while", src |-> sources[i],
                               new_filename |-> names[i],
                               new_path |-> Path("out", names[i]), counter |-> 1]]]

\* a worker tests the while condition of line 76 and runs the body when it holds
RaceWhile ==
    \E i \in 1..2 :
        /\ call.fn = "race" /\ call.w[i].pc = "while"
        /\ call' = IF PathTaken(call.fs, call.w[i].new_path)
                   THEN [call EXCEPT
                            !.w[i].new_path =
                                Path("out", PdfNumbered(call.w[i].new_filename,
                                                        call.w[i].counter)),
                            !.w[i].counter = call.w[i].counter + 1]
                   ELSE [call EXCEPT !.w[i].pc = "copy"]
        /\ RunUnchanged

\* a worker's shutil.copy2 of line 93
RaceCopy ==
    \E i \in 1..2 :
        /\ call.fn = "race" /\ call.w[i].pc = "copy"
        /\ call' = [call EXCEPT
                       !.fs = Copy2(call.fs, call.w[i].src, call.w[i].new_path),
                       !.w[i].pc = "unlink"]
        /\ RunUnchanged

\* a worker's pdf_path.unlink() of line 97
RaceUnlink ==
    \E i \in 1..2 :
        /\ call.fn = "race" /\ call.w[i].pc = "unlink"
        /\ call' = [call EXCEPT !.fs = Unlink(call.fs, call.w[i].src),
                                !.w[i].pc = "done"]
        /\ RunUnchanged

---------------------------------------------------------------------------
(* The destination of a file, and a run in both modes *)

\* the while loop of process_pdf (lines 76-79) and of process_screenshot (lines
\* 153-157) from new_path p and counter c on: the path it leaves with
RECURSIVE Resolved(_, _, _, _, _)
Resolved(f, variant, name, p, c) ==
    IF PathTaken(f, p)
    THEN Resolved(f, variant, name,
                  Path(p.dir, IF variant = "pdf" THEN PdfNumbered(name, c)
                              ELSE ImgNumbered(name, c)),
                  c + 1)
    ELSE p

\* two PDFs, the names format_filename gives them, and some names taken in the
\* output directory; the record holds the filesystem of the dry run (dry) and of
\* the run in execute mode (exec), and the destinations each run logs
PreviewCalls ==
    \E names \in [1..2 -> PdfCandidates],
       taken \in SUBSET {<<"X">> \o DotPdf, <<"X">> \o DotTxt} :
        LET sources == <<Path("in", <<"a">> \o DotPdf), Path("in", <<"b">> \o DotPdf)>>
            f == [p \in {sources[1], sources[2]} \cup {Path("out", n) : n \in taken} |->
                     Original(p)]
        IN  call = [fn |-> "preview", sources |-> sources, names |-> names,
                    dry |-> f, exec |-> f, shown |-> <<>>, moved |-> <<>>]

\* process_pdf for the next file in both runs, every copy and delete succeeding:
\* lines 72-79, then lines 109-111 in the dry run and lines 93-97 in execute mode
PreviewFile ==
    /\ call.fn = "preview" /\ Len(call.shown) < Len(call.sources)
    /\ LET i == Len(call.shown) + 1
           would == Resolved(call.dry, "pdf", call.names[i],
                             Path("out", call.names[i]), 1)
           does == Resolved(call.exec, "pdf", call.names[i],
                            Path("out", call.names[i]), 1)
       IN  call' = [call EXCEPT
                       !.shown = Append(call.shown, would),
                       !.moved = Append(call.moved, does),
                       !.exec = Unlink(Copy2(call.exec, call.sources[i], does),
                                       call.sources[i])]
    /\ RunUnchanged

---------------------------------------------------------------------------
(* The destination of a file whose metadata holds path separators *)

\* a field value has at most this many characters
MaxValue == 3

\* the files whose destination is resolved: a PDF or a screenshot, a title or
\* main_subject over a letter, the period and the two separators, a template without
\* a separator ('{key}', '{key}.pdf', '.{key}', '..{key}'), the names 'a' and 'a.pdf'
\* taken or not
DestinationCalls ==
    \E variant \in {"pdf", "img"}, k \in 0..MaxValue,
       taken \in SUBSET {<<"a">>, <<"a">> \o DotPdf} :
        \E value \in [1..k -> {"a", ".", "/", "\\"}],
           around \in {<<<<>>, <<>>>>, <<<<>>, DotPdf>>, <<<<".">>, <<>>>>,
                       <<<<".", ".">>, <<>>>>} :
            call = [fn |-> "destination", stage |-> "input", variant |-> variant,
                    value |-> value,
                    segs |-> [j \in 1..Len(around[1]) |-> Lit(around[1][j])]
                                 \o <<Key(IF variant = "pdf" THEN "title"
                                          ELSE "main_subject")>>
                                 \o [j \in 1..Len(around[2]) |-> Lit(around[2][j])],
                    fs |-> [p \in {Path("out", n) : n \in taken} |-> Original(p)],
                    new_filename |-> <<>>, new_path |-> NoPath]

\* process_pdf lines 71-79 (process_screenshot lines 146-157 for an image with the
\* suffix '.png'): the name, and the path the loop leaves with
DestinationCall ==
    /\ call.fn = "destination" /\ call.stage = "input"
    /\ LET template == Render(call.segs)
           new == IF call.variant = "pdf"
                  THEN format_filename(
                           [author |-> None, author_last |-> None, editor |-> None,
                            editor_last |-> None, year |-> None,
                            title |-> call.value, subtitle |-> None], template)
                  ELSE screenshot_format_filename(
                           [application |-> None, date |-> None, time |-> None,
                            content_type |-> None, main_subject |-> call.value],
                           Replace(template, DotPng, DotPng))
       IN  call' = [call EXCEPT
                       !.stage = "done",
                       !.new_filename = new.text,
                       !.new_path = Resolved(call.fs, call.variant, new.text,
                                             Path("out", new.text), 1)]
    /\ RunUnchanged

PipelineInit ==
    /\ NoRun
    /\ \/ ExtractCalls
       \/ ShotNameCalls
       \/ RaceCalls
       \/ PreviewCalls
       \/ DestinationCalls

PipelineNext ==
    \/ ExtractCall
    \/ ShotNameCall
    \/ RaceWhile
    \/ RaceCopy
    \/ RaceUnlink
    \/ PreviewFile
    \/ DestinationCall

PipelineSpec == PipelineInit /\ [][PipelineNext]_vars

---------------------------------------------------------------------------
(* The required field *)

(* C22: every metadata record that reaches the template engine has a non-empty     *)
(* required field (title for documents, main_subject for screenshots): a record    *)
(* with an empty required field cannot be constructed or is rejected before a      *)
(* filename is produced.                                                           *)
C22_Original ==
    (call.fn = "extract" /\ call.stage = "named") =>
        call.required.some /\ call.required.text # <<>>

---------------------------------------------------------------------------
(* The extension of a screenshot *)

\* the extension of a file name: its last period and what follows it
Extension(name) ==
    IF \E k \in 1..Len(name) : name[k] = "."
    THEN SubSeq(name, CHOOSE k \in 1..Len(name) :
                          name[k] = "." /\ \A j \in (k + 1)..Len(name) : name[j] # ".",
                Len(name))
    ELSE <<>>

\* the seven extensions of the supported image files, in lower case
LowerCaseExtensions ==
    { <<".", "p", "n", "g">>, <<".", "j", "p", "g">>, <<".", "j", "p", "e", "g">>,
      <<".", "b", "m", "p">>, <<".", "g", "i", "f">>, <<".", "t", "i", "f", "f">>,
      <<".", "w", "e", "b", "p">> }

\* the extension ext is the extension of the image file in lower case
OriginalExtension(ext) ==
    /\ ext \in LowerCaseExtensions
    /\ Len(ext) = Len(call.pattern)
    /\ \A k \in 1..Len(ext) :
          call.pattern[k] = ext[k]
              \/ <<call.pattern[k], ext[k]>> \in
                    {<<"P", "p">>, <<"N", "n">>, <<"G", "g">>, <<"J", "j">>,
                     <<"E", "e">>, <<"B", "b">>, <<"M", "m">>, <<"I", "i">>,
                     <<"F", "f">>, <<"T", "t">>, <<"W", "w">>}

\* what the code does: with a template that ends in '.png' the name and the
\* numbered name have the extension of the image file in lower case
PngTemplateKeepsExtension ==
    (call.fn = "shot_name" /\ call.stage = "named"
        /\ call.segs[Len(call.segs)] = [lit |-> TRUE, sym |-> "g"]
        /\ call.segs[Len(call.segs) - 1] = [lit |-> TRUE, sym |-> "n"]) =>
        /\ OriginalExtension(Extension(call.out.text))
        /\ OriginalExtension(Extension(call.numbered))

(* C23: for screenshots, the destination filename's extension equals the original *)
(* file's extension (lower-cased), for every supported image extension and every   *)
(* configured screenshot template, both when the candidate name is free and when a *)
(* ' (N)' disambiguator is added.                                                  *)
C23_Original ==
    (call.fn = "shot_name" /\ call.stage = "named") =>
        /\ OriginalExtension(Extension(call.out.text))
        /\ OriginalExtension(Extension(call.numbered))

---------------------------------------------------------------------------
(* Two workers and one output directory *)

\* worker i has left its while loop, having found its new_path free
FoundFree(i) == call.w[i].pc \in {"copy", "unlink", "done"}

\* worker i has copied its source to its new_path
HasCopied(i) == call.w[i].pc \in {"unlink", "done"}

(* C25: if two workers run the collision check and copy in parallel against the    *)
(* same output directory with the same candidate name, both can find the same path *)
(* free and both copy to it, and then one file's content is overwritten and, once  *)
(* both sources are deleted, lost: whenever both have copied to one path, that     *)
(* path holds the bytes of exactly one source and the bytes of the other are at    *)
(* its source alone, and nowhere when that worker is done.  No file that was in    *)
(* the output directory before is overwritten, and workers with different paths    *)
(* lose nothing.                                                                   *)
C25_ParallelWorkersOverwrite ==
    call.fn = "race" =>
        /\ \A p \in DOMAIN call.fs0 :
              p.dir = "out" => HasContent(call.fs, p, p)
        /\ (HasCopied(1) /\ HasCopied(2)) =>
              IF call.w[1].new_path = call.w[2].new_path
              THEN \E i \in 1..2 :
                      /\ HasContent(call.fs, call.w[i].new_path, call.w[i].src)
                      /\ ~HasContent(call.fs, call.w[i].new_path, call.w[3 - i].src)
                      /\ \A p \in DOMAIN call.fs :
                            call.fs[p] = Original(call.w[3 - i].src) =>
                                p = call.w[3 - i].src
                      /\ call.w[3 - i].pc = "done" =>
                            Copies(call.fs, call.w[3 - i].src) = 0
              ELSE \A i \in 1..2 :
                      HasContent(call.fs, call.w[i].new_path, call.w[i].src)

\* C25 witness: both workers found 'X (1).pdf' free, copied to it and deleted their
\* sources; the bytes of 'a.pdf' are nowhere
C25_Witness ==
    /\ call.fn = "race"
    /\ call.w[1].pc = "done" /\ call.w[2].pc = "done"
    /\ call.w[1].new_path = call.w[2].new_path
    /\ call.w[1].counter = 2
    /\ HasContent(call.fs, call.w[2].new_path, call.w[2].src)
    /\ Copies(call.fs, call.w[1].src) = 0

---------------------------------------------------------------------------
(* Termination of the collision loop *)

\* the run with every enabled step eventually taken: the event loop runs the one
\* coroutine of asyncio.run(process_directory(...)) until it returns
FairSpec == Spec /\ WF_vars(Next)

\* the names 'stem.ext', 'stem (1).ext', ... of the candidate that exist
ExistingOfFamily ==
    {n \in 0..(Cardinality(DOMAIN fs) + 1) :
        Present(fs, Path(output_dir,
                         IF n = 0 THEN new_filename ELSE WithSuffix(new_filename, n)))}

\* what the code does: when the loop is left it has made counter existence checks,
\* the last one of a path that does not exist and the others of different paths
\* that do, so at most one more than the directory holds files
ChecksBoundedByFiles ==
    pc = "materialize" =>
        /\ counter <= Cardinality({p \in DOMAIN fs : p.dir = output_dir}) + 1
        /\ counter >= 1

\* what the code does: the processing of a file always ends
ProcessingEnds == InProcess ~> ~InProcess

(* C26: the collision-resolution loop terminates for every directory holding       *)
(* finitely many files: with k existing names among 'stem.ext', 'stem (1).ext',    *)
(* ... it stops after at most k+1 existence checks.                                *)
C26_Original ==
    pc = "materialize" => counter <= Cardinality(ExistingOfFamily) + 1

---------------------------------------------------------------------------
(* main: from the command line to the end of the run *)

\* the state when main is entered: --dry-run given or not, --output 'out' given or
\* not, the directory 'out' existing or not (it holds files only when it exists);
\* the record holds the option, the directories that exist (dirs) and those that
\* existed when main was entered (dirs0)
MainInit ==
    /\ dry_run \in BOOLEAN
    /\ output_dir = "none"
    /\ \E output \in {"none", "out"}, dirs \in {{"in"}, {"in", "out"}} :
          /\ call = [fn |-> "main", output |-> output, dirs0 |-> dirs, dirs |-> dirs]
          /\ \E S \in SUBSET InitPaths(IF output = "none" THEN "in" ELSE output) :
                /\ Cardinality(S) <= MaxInitFiles
                /\ \A p \in S : p.dir \in dirs
                /\ fs = [p \in S |-> Original(p)]
    /\ Cardinality(GlobPdf(fs) \cup GlobImages(fs)) <= MaxSources
    /\ fs_init = fs
    /\ fs0 = fs
    /\ pdf_files = <<>>
    /\ screenshot_files = <<>>
    /\ kind = "pdf"
    /\ idx = 1
    /\ pc = "main"
    /\ new_filename = <<>>
    /\ new_path = NoPath
    /\ counter = 1
    /\ errors = 0
    /\ copied = FALSE
    /\ last = NoLast
    /\ attempted = <<>>

\* main lines 259-264: output_dir is the --output directory, created with its
\* parents when it does not exist, or the input directory
Main ==
    /\ pc = "main"
    /\ pc' = "start"
    /\ IF call.output # "none"
       THEN /\ output_dir' = call.output
            /\ call' = [call EXCEPT !.dirs = call.dirs \cup {call.output}]
       ELSE /\ output_dir' = "in"
            /\ UNCHANGED call
    /\ UNCHANGED <<fs, dry_run, pdf_files, screenshot_files, kind, idx, new_filename,
                   new_path, counter, errors, copied, fs0, fs_init, last, attempted>>

MainNext ==
    \/ Main
    \/ Next

MainSpec == MainInit /\ [][MainNext]_vars

(* C27: a complete run of main with --dry-run leaves the filesystem unchanged,     *)
(* including when --output names a directory that does not yet exist: no file or   *)
(* directory is created, modified or removed.                                      *)
C27_Original ==
    (call.fn = "main" /\ dry_run /\ pc = "done") =>
        /\ SameExcept(fs, fs_init, {})
        /\ call.dirs = call.dirs0

---------------------------------------------------------------------------
(* Files that already have their name *)

\* what the code does: a source whose name is the name produced for it, with the
\* output directory being the input directory, is moved to the first numbered name
\* that is free
RenamedFileIsNumbered ==
    (JustEnded /\ last.outcome = "moved" /\ last.src = Candidate) =>
        /\ last.dst # last.src
        /\ \E n \in 1..(Cardinality(DOMAIN fs) + 1) :
              last.dst = Path(output_dir, WithSuffix(new_filename, n))
        /\ ~Present(fs, last.src)

(* C28: renaming is a fixpoint on already-renamed files: when the output directory *)
(* is the input directory and a source file's current name already equals the      *)
(* filename its metadata and template produce, processing it in execute mode       *)
(* leaves it at that same path (it is not moved to 'stem (1).ext').                *)
C28_Original ==
    (JustEnded /\ last.outcome = "moved" /\ last.src = Candidate) =>
        /\ last.dst = last.src
        /\ HasContent(fs, last.src, last.src)

---------------------------------------------------------------------------
(* Dry run and execute mode *)

\* what the code does: the first file of a run has the same destination in both
\* modes, and so has every file whose candidate no earlier file of the run was
\* given a name from
FirstFilePreviewed ==
    call.fn = "preview" =>
        \A i \in 1..Len(call.shown) :
            (\A j \in 1..(i - 1) :
                 RSplitHead(call.names[j], ".") # RSplitHead(call.names[i], ".")) =>
                call.shown[i] = call.moved[i]

(* C29: dry-run is a faithful preview: the destination path reported for each file *)
(* in a dry run equals the destination path that the same run in execute mode      *)
(* (with all copies and deletes succeeding) gives that file, including when        *)
(* several files in the run produce the same candidate filename.                   *)
C29_Original ==
    call.fn = "preview" => call.shown = call.moved

---------------------------------------------------------------------------
(* Metadata and the destination directory *)

\* the path is a direct child of directory d: its name is one path component, and
\* not the directory itself or its parent
DirectChild(p, d) ==
    /\ p.dir = d
    /\ \A k \in 1..Len(p.name) : p.name[k] \notin {"/", "\\"}
    /\ p.name \notin {<<>>, <<".">>, <<".", ".">>}

(* C30: no metadata value can redirect the destination: for every template whose   *)
(* literal text contains no path separator and every field content, the resolved   *)
(* destination path (with or without a ' (N)' disambiguator) is a direct child of  *)
(* the output directory; '/' and '\' are removed from every substituted value.     *)
C30_DestinationIsDirectChild ==
    (call.fn = "destination" /\ call.stage = "done") =>
        /\ DirectChild(call.new_path, "out")
        /\ \A k \in 1..Len(call.new_filename) :
              call.new_filename[k] \notin {"/", "\\"}

\* C30 witness: the title '../' with the template '{title}' gives the name '..',
\* which exists, and the file goes to '. (1).pdf' in the output directory
C30_Witness ==
    /\ call.fn = "destination" /\ call.stage = "done"
    /\ call.variant = "pdf"
    /\ call.value = <<".", ".", "/">>
    /\ call.new_filename = <<".", ".">>
    /\ call.new_path.name = <<".", " ", "(", "1", ")", ".", "p", "d", "f">>

====
